---- MODULE Spec2Model ----
(***************************************************************************)
(* Lesson booking backend: the Express routes of server.js over the two    *)
(* MongoDB collections "lessons" and "orders", and the seeding script      *)
(* scripts/seed.js.                                                        *)
(*                                                                         *)
(* Text is a sequence of one-character strings, so that trimming, case     *)
(* folding, regular-expression search and number parsing are computed.     *)
(* JSON values of request bodies carry their JavaScript type in the field  *)
(* t and, where they have one, their value in the field v.                 *)
(*                                                                         *)
(* A handler runs to its await in one step and from its await in another:  *)
(* the store applies the call in the first, the response is sent in the    *)
(* second, and the server takes other requests in between.                 *)
(***************************************************************************)
EXTENDS Integers, Sequences, FiniteSets

\* ------------------------------------------------------------------ bounds

\* Most successful writes (PUT /lessons/:id, POST /orders) in one behaviour.
MaxWrites == 1

\* ------------------------------------------------------- JavaScript values

Undefined == [t |-> "undefined"]
JNull == [t |-> "null"]
JStr(s) == [t |-> "string", v |-> s]
JNum(n) == [t |-> "number", v |-> n]
JArr(a) == [t |-> "array", v |-> a]
JObj == [t |-> "object"]

Digits == <<"0", "1", "2", "3", "4", "5", "6", "7", "8", "9">>
UpperCase == <<"A", "B", "C", "D", "E", "F", "G", "H", "I", "J", "K", "L", "M",
               "N", "O", "P", "Q", "R", "S", "T", "U", "V", "W", "X", "Y", "Z">>
LowerCase == <<"a", "b", "c", "d", "e", "f", "g", "h", "i", "j", "k", "l", "m",
               "n", "o", "p", "q", "r", "s", "t", "u", "v", "w", "x", "y", "z">>

DigitTable == [c \in {Digits[i] : i \in 1..10} |-> (CHOOSE i \in 1..10 : Digits[i] = c) - 1]
LowerTable ==
    [c \in {UpperCase[i] : i \in 1..26} |-> LowerCase[CHOOSE i \in 1..26 : UpperCase[i] = c]]

IsDigit(c) == c \in DOMAIN DigitTable
DigitVal(c) == DigitTable[c]

\* String.prototype.toLowerCase, one character.
LowerChar(c) == IF c \in DOMAIN LowerTable THEN LowerTable[c] ELSE c

\* String.prototype.toLowerCase.
ToLowerCase(s) == [i \in 1..Len(s) |-> LowerChar(s[i])]

RECURSIVE TrimStart(_)
TrimStart(s) ==
    IF s # <<>> /\ Head(s) = " " THEN TrimStart(Tail(s)) ELSE s

RECURSIVE TrimEnd(_)
TrimEnd(s) ==
    IF s # <<>> /\ s[Len(s)] = " " THEN TrimEnd(SubSeq(s, 1, Len(s) - 1)) ELSE s

\* A handler that takes q untrimmed.
Untrimmed(s) == s

\* String.prototype.trim (the only white space of the inputs is " ").
Trim(s) == TrimEnd(TrimStart(s))

\* The value of a run of decimal digits.
RECURSIVE DigitsValue(_)
DigitsValue(s) ==
    IF s = <<>> THEN 0
    ELSE 10 * DigitsValue(SubSeq(s, 1, Len(s) - 1)) + DigitVal(s[Len(s)])

RECURSIVE Pow10(_)
Pow10(k) == IF k = 0 THEN 1 ELSE 10 * Pow10(k - 1)

AllDigits(s) == \A i \in 1..Len(s) : IsDigit(s[i])

\* The longest prefix of s made of decimal digits.
RECURSIVE DigitPrefix(_)
DigitPrefix(s) ==
    IF s # <<>> /\ IsDigit(Head(s)) THEN <<Head(s)>> \o DigitPrefix(Tail(s)) ELSE <<>>

NaN == [nan |-> TRUE, num |-> 0, den |-> 1]
Rational(n, d) == [nan |-> FALSE, num |-> n, den |-> d]

\* Strips one leading sign; sgn is -1 for "-", otherwise 1.
Unsigned(s) == IF s # <<>> /\ Head(s) \in {"+", "-"} THEN Tail(s) ELSE s
Sign(s) == IF s # <<>> /\ Head(s) = "-" THEN -1 ELSE 1

\* Number(string) for a string with no white space at its ends: an optional
\* sign, then digits with an optional fraction, or a fraction alone.
\* Anything else is NaN.  (Exponents, hexadecimal and "Infinity" need
\* letters that the inputs below do not combine into those forms.)
Number(s) ==
    LET u == Unsigned(s)
        ip == DigitPrefix(u)
        rest == SubSeq(u, Len(ip) + 1, Len(u))
        fp == IF rest # <<>> /\ Head(rest) = "." THEN Tail(rest) ELSE <<>>
    IN  IF u = <<>> THEN NaN
        ELSE IF rest = <<>> THEN Rational(Sign(s) * DigitsValue(ip), 1)
        ELSE IF Head(rest) = "." /\ AllDigits(fp) /\ (ip # <<>> \/ fp # <<>>)
             THEN Rational(Sign(s) * DigitsValue(ip \o fp), Pow10(Len(fp)))
        ELSE NaN

\* isNaN(number).
IsNaN(x) == x.nan

\* number === integer field value.
NumEquals(x, n) == ~x.nan /\ x.num = n * x.den

\* parseInt(string, 10): leading white space is skipped, then an optional
\* sign and the longest run of digits; NaN when that run is empty.
ParseInt(s) ==
    LET u == TrimStart(s)
        ip == DigitPrefix(Unsigned(u))
    IN  IF ip = <<>> THEN NaN ELSE Rational(Sign(u) * DigitsValue(ip), 1)


\* ------------------------------------------------------ JSON in JavaScript

\* The decimal text of a non-negative integer.
RECURSIVE NatToString(_)
NatToString(n) ==
    IF n < 10 THEN <<Digits[n + 1]>>
    ELSE NatToString(n \div 10) \o <<Digits[(n % 10) + 1]>>

RECURSIVE StringOf(_)
RECURSIVE Join(_)
\* Array.prototype.join(","): null and undefined elements give "".
Join(a) ==
    IF a = <<>> THEN <<>>
    ELSE LET h == IF Head(a).t \in {"undefined", "null"} THEN <<>> ELSE StringOf(Head(a))
         IN  IF Len(a) = 1 THEN h ELSE h \o <<",">> \o Join(Tail(a))

\* String(value), the conversion RegExp.prototype.test applies to its argument.
StringOf(x) ==
    CASE x.t = "string" -> x.v
      [] x.t = "number" -> IF x.v < 0 THEN <<"-">> \o NatToString(-x.v) ELSE NatToString(x.v)
      [] x.t = "array" -> Join(x.v)
      [] x.t = "object" -> <<"[", "o", "b", "j", "e", "c", "t", " ", "O", "b", "j", "e", "c", "t", "]">>
      [] x.t = "null" -> <<"n", "u", "l", "l">>
      [] OTHER -> <<"u", "n", "d", "e", "f", "i", "n", "e", "d">>

\* ToBoolean(value): what !value negates.
Truthy(x) ==
    CASE x.t = "string" -> x.v # <<>>
      [] x.t = "number" -> x.v # 0
      [] x.t \in {"array", "object"} -> TRUE
      [] OTHER -> FALSE

\* value.length: strings and arrays have one, other values give undefined.
Length(x) == IF x.t \in {"string", "array"} THEN JNum(Len(x.v)) ELSE Undefined

\* a < n for a value a and a number n: undefined compares false.
LessThan(a, n) == a.t = "number" /\ a.v < n

\* Array.isArray(value).
IsArray(x) == x.t = "array"

\* /^[0-9]+$/.test(value).
DigitsOnlyTest(x) == LET s == StringOf(x) IN s # <<>> /\ AllDigits(s)

\* --------------------------------------------------------- regular expressions

\* Whether the pattern matches the text at offset start, under the option "i".
\* In the patterns of the inputs "." is the one metacharacter: it matches any
\* character; every other character matches itself in either case.
MatchesAt(pattern, text, start) ==
    \A k \in 1..Len(pattern) :
        \/ pattern[k] = "."
        \/ LowerChar(pattern[k]) = LowerChar(text[start + k])

\* { field: { $regex: pattern, $options: "i" } } on a text value: an
\* unanchored search.
RegexTest(pattern, text) ==
    \E start \in 0..(Len(text) - Len(pattern)) : MatchesAt(pattern, text, start)

\* --------------------------------------------------------------- seed data

lessons == <<
    [id |-> 1,
     subject |-> <<"M", "a", "t", "h", "e", "m", "a", "t", "i", "c", "s">>,
     location |-> <<"H", "e", "n", "d", "o", "n">>,
     price |-> 100, spaces |-> 5,
     icon |-> "fa-solid fa-calculator",
     image |-> "https://img.icons8.com/color/240/calculator--v1.png"],
    [id |-> 2,
     subject |-> <<"E", "n", "g", "l", "i", "s", "h">>,
     location |-> <<"C", "o", "l", "i", "n", "d", "a", "l", "e">>,
     price |-> 80, spaces |-> 5,
     icon |-> "fa-solid fa-book-open",
     image |-> "https://img.icons8.com/color/240/book-reading.png"],
    [id |-> 3,
     subject |-> <<"B", "i", "o", "l", "o", "g", "y">>,
     location |-> <<"G", "o", "l", "d", "e", "r", "s", " ", "G", "r", "e", "e", "n">>,
     price |-> 90, spaces |-> 5,
     icon |-> "fa-solid fa-seedling",
     image |-> "https://img.icons8.com/color/240/dna-helix.png"],
    [id |-> 4,
     subject |-> <<"C", "h", "e", "m", "i", "s", "t", "r", "y">>,
     location |-> <<"B", "r", "e", "n", "t", " ", "C", "r", "o", "s", "s">>,
     price |-> 70, spaces |-> 5,
     icon |-> "fa-solid fa-flask",
     image |-> "https://img.icons8.com/color/240/test-tube.png"],
    [id |-> 5,
     subject |-> <<"H", "i", "s", "t", "o", "r", "y">>,
     location |-> <<"H", "e", "n", "d", "o", "n">>,
     price |-> 50, spaces |-> 5,
     icon |-> "fa-solid fa-landmark",
     image |-> "https://img.icons8.com/color/240/scroll.png"],
    [id |-> 6,
     subject |-> <<"P", "h", "y", "s", "i", "c", "s">>,
     location |-> <<"C", "o", "l", "i", "n", "d", "a", "l", "e">>,
     price |-> 95, spaces |-> 5,
     icon |-> "fa-solid fa-atom",
     image |-> "https://img.icons8.com/color/240/physics.png"],
    [id |-> 7,
     subject |-> <<"A", "r", "t">>,
     location |-> <<"B", "r", "e", "n", "t", " ", "C", "r", "o", "s", "s">>,
     price |-> 60, spaces |-> 5,
     icon |-> "fa-solid fa-palette",
     image |-> "https://img.icons8.com/color/240/art-prices.png"],
    [id |-> 8,
     subject |-> <<"G", "e", "o", "g", "r", "a", "p", "h", "y">>,
     location |-> <<"G", "o", "l", "d", "e", "r", "s", " ", "G", "r", "e", "e", "n">>,
     price |-> 85, spaces |-> 5,
     icon |-> "fa-solid fa-earth-europe",
     image |-> "https://img.icons8.com/color/240/globe--v1.png"],
    [id |-> 9,
     subject |-> <<"C", "o", "m", "p", "u", "t", "e", "r", " ", "S", "c", "i", "e", "n", "c", "e">>,
     location |-> <<"H", "e", "n", "d", "o", "n">>,
     price |-> 120, spaces |-> 5,
     icon |-> "fa-solid fa-code",
     image |-> "https://img.icons8.com/color/240/source-code.png"],
    [id |-> 10,
     subject |-> <<"E", "c", "o", "n", "o", "m", "i", "c", "s">>,
     location |-> <<"C", "o", "l", "i", "n", "d", "a", "l", "e">>,
     price |-> 110, spaces |-> 5,
     icon |-> "fa-solid fa-chart-line",
     image |-> "https://img.icons8.com/color/240/economic-improvement.png"]
>>

\* ------------------------------------------------------------- the store

\* The filter {} and the filter { $or: [...] }.
EmptyFilter == [kind |-> "all", clauses |-> <<>>]
OrFilter(cs) == [kind |-> "or", clauses |-> cs]
RegexClause(f, p) == [field |-> f, op |-> "regex", arg |-> p]
EqClause(f, n) == [field |-> f, op |-> "eq", arg |-> n]

\* The fields of a lesson that hold text; the others hold numbers.
TextFields == {"subject", "location", "icon", "image"}

ClauseMatches(doc, c) ==
    /\ c.field \in DOMAIN doc
    /\ IF c.op = "regex"
       THEN c.field \in TextFields /\ RegexTest(c.arg, doc[c.field])
       ELSE c.field \notin TextFields /\ NumEquals(c.arg, doc[c.field])

FilterMatches(doc, filter) ==
    \/ filter.kind = "all"
    \/ \E i \in 1..Len(filter.clauses) : ClauseMatches(doc, filter.clauses[i])

\* collection.find(filter).toArray(): the matching documents in natural order.
Find(coll, filter) == SelectSeq(coll, LAMBDA d : FilterMatches(d, filter))

\* $set: the fields of the patch replace or add to those of the document.
SetFields(doc, patch) ==
    [f \in DOMAIN doc \cup DOMAIN patch |-> IF f \in DOMAIN patch THEN patch[f] ELSE doc[f]]

\* The documents whose id equals the number.
MatchingIds(coll, id) == {i \in 1..Len(coll) : NumEquals(id, coll[i].id)}

\* An update that reports the match and writes nothing.
AcknowledgeOnly(coll, id, patch) ==
    [matchedCount |-> IF MatchingIds(coll, id) = {} THEN 0 ELSE 1, coll |-> coll]

\* collection.updateOne({ id }, { $set: patch }): the first match is updated.
UpdateOne(coll, id, patch) ==
    LET m == MatchingIds(coll, id) IN
    IF m = {} THEN [matchedCount |-> 0, coll |-> coll]
    ELSE LET i == CHOOSE j \in m : \A k \in m : j <= k
         IN  [matchedCount |-> 1,
              coll |-> [coll EXCEPT ![i] = SetFields(coll[i], patch)]]

\* A wipe that removes nothing.
DeleteNone(coll) == coll

\* collection.deleteMany({}).
DeleteMany(coll) == <<>>

\* collection.insertMany(docs), and an insert that fails with k documents written.
InsertMany(coll, docs) == coll \o docs
InsertManyFailing(coll, docs, k) == coll \o SubSeq(docs, 1, k)

\* collection.insertOne(doc): the store assigns the identifier.
InsertOne(coll, doc) ==
    LET id == Len(coll) + 1
    IN  [insertedId |-> id, coll |-> Append(coll, SetFields(doc, [_id |-> id]))]


\* ------------------------------------------------------------------ state

VARIABLES
    lessonsCollection,  \* the documents of the collection "lessons", in natural order
    ordersCollection,   \* the documents of the collection "orders", in natural order
    inFlight,           \* per connection: the request whose handler waits at its await
    serverExit,         \* the exit status of the server process (-1: it runs)
    req,                \* the request of the exchange that ended latest (NoRequest: none)
    responses,          \* the responses that request got, in the order they were sent
    storeOps,           \* the store calls that request's handler made, in order
    before,             \* both collections as they were before that handler's store call
    after,              \* both collections as they were after that handler's store call
    writes,             \* successful PUT and POST writes so far
    seedPc,             \* where the seeding script is
    seedError,          \* what the script's run met: "none", "uri" (no MONGODB_URI), "caught"
    seedExit,           \* the exit status of the script's latest finished run (-1: none)
    seedPrior,          \* what the script's running run found in "lessons"
    clients,            \* the booking clients: where each is, what it read and sent
    lastApplied         \* the client whose PUT the store applied last (0: none)

vars == <<lessonsCollection, ordersCollection, inFlight, serverExit, req, responses,
          storeOps, before, after, writes, seedPc, seedError, seedExit, seedPrior,
          clients, lastApplied>>

exchangeVars == <<req, responses, storeOps, before, after>>

seedVars == <<seedPc, seedError, seedExit, seedPrior>>

clientVars == <<clients, lastApplied>>

\* The connections the server has open: a handler is called with the request
\* and the response object (res) of one of them.
Connections == {1, 2}

\* The clients that book, and a client that is not booking.
Clients == {1, 2}
Away == [pc |-> "away", quantity |-> 0, seen |-> 0, sent |-> 0, status |-> 0]

NoRequest == [route |-> "none"]
Snapshot == [lessons |-> lessonsCollection, orders |-> ordersCollection]
NoSnapshot == [lessons |-> <<>>, orders |-> <<>>]

\* A connection with no handler waiting.
Idle == [req |-> NoRequest]

\* res.status(code).json(body); res.json(body) sends status 200.
Json(code, body) == [status |-> code, body |-> body]
StoreOp(op, coll, ok) == [op |-> op, coll |-> coll, ok |-> ok]

\* What the awaited store call settles with: its value, or an error.
Settled(ok, value) == [ok |-> ok, value |-> IF ok THEN value ELSE "error"]

\* An async handler's promise rejects outside any try block.  Express 5 passes
\* the rejection to the error handler, which answers 500.  Express 4 drops it:
\* the request gets no response and, the rejection being unhandled, Node 15 and
\* later end the process with status 1, earlier versions only warn.  The
\* repository pins neither version.
Outcomes == {"forwarded", "dropped", "exit"}
Unhandled(outcome) ==
    IF outcome = "forwarded" THEN <<Json(500, [error |-> "Internal server error"])>> ELSE <<>>

\* The server has started on the seeded store; the script has not been run again.
Init ==
    /\ lessonsCollection = lessons
    /\ ordersCollection = <<>>
    /\ inFlight = [c \in Connections |-> Idle]
    /\ serverExit = -1
    /\ req = NoRequest
    /\ responses = <<>>
    /\ storeOps = <<>>
    /\ before = NoSnapshot
    /\ after = NoSnapshot
    /\ writes = 0
    /\ seedPc = "idle"
    /\ seedError = "none"
    /\ seedExit = -1
    /\ seedPrior = "none"
    /\ clients = [c \in Clients |-> Away]
    /\ lastApplied = 0

\* The running server calls the handler with a request that arrived on a
\* connection with no handler waiting.
Receives(res) ==
    /\ serverExit = -1
    /\ req = NoRequest
    /\ inFlight[res].req.route = "none"

\* The handler sends its response before any await: the exchange ends in the
\* step that began it.
AnswerNow(r, response) ==
    /\ req' = r
    /\ responses' = <<response>>
    /\ storeOps' = <<>>
    /\ before' = Snapshot
    /\ after' = Snapshot
    /\ UNCHANGED inFlight

\* Unless a client holds a connection of its own, which connection a handler
\* waits on decides nothing: of the two ways to number the handlers waiting,
\* one is kept.
Swapped(f) == [c \in Connections |-> f[CHOOSE d \in Connections : d # c]]
Waiting(f) ==
    IF \A c \in Clients : clients[c] = Away
    THEN CHOOSE g \in {f, Swapped(f)} : TRUE
    ELSE f

\* The handler makes its store call, which the store applies, and waits for
\* the call to settle: the server goes on to its other requests.
Await(res, r, op, result, post) ==
    /\ inFlight' = Waiting([inFlight EXCEPT ![res] =
                      [req |-> r, storeOps |-> <<op>>, result |-> result,
                       before |-> Snapshot, after |-> post]])
    /\ UNCHANGED exchangeVars

\* The exchange is over (the response was sent, or the client gave up on a
\* request that got none).
Complete ==
    /\ req # NoRequest
    /\ req' = NoRequest
    /\ responses' = <<>>
    /\ storeOps' = <<>>
    /\ before' = NoSnapshot
    /\ after' = NoSnapshot
    /\ UNCHANGED <<lessonsCollection, ordersCollection, inFlight, serverExit, writes,
                   seedVars>>

\* ----------------------------------------------------------- GET /lessons

LessonsRequest == [route |-> "GET /lessons"]

\* await lessonsCollection.find({}).toArray()
GetLessons(res, ok) ==
    /\ Receives(res)
    /\ Await(res, LessonsRequest, StoreOp("find", "lessons", ok),
             Settled(ok, Find(lessonsCollection, EmptyFilter)), Snapshot)
    /\ UNCHANGED <<lessonsCollection, ordersCollection, serverExit, writes, seedVars>>

\* res.json(lessons), or the catch block.
GetLessonsReply(result) ==
    IF result.ok THEN Json(200, result.value)
    ELSE Json(500, [error |-> "Failed to fetch lessons"])

\* ------------------------------------------------------------ GET /search

\* (req.query.q || "").trim()
SearchTerm(q) == Trim(IF Truthy(q) THEN q.v ELSE <<>>)

\* A test that accepts a term as soon as it starts with a digit, as
\* !isNaN(parseFloat(term)) does.
StartsNumeric(term) == DigitPrefix(Unsigned(term)) # <<>>

\* !isNaN(Number(term))
IsNumeric(term) == ~IsNaN(Number(term))

\* The $or filter built from a non-empty term.
SearchQuery(term) ==
    LET lowerTerm == ToLowerCase(term)
        numTerm == Number(term)
    IN  OrFilter(<<RegexClause("subject", lowerTerm), RegexClause("location", lowerTerm)>>
                 \o (IF IsNumeric(term)
                     THEN <<EqClause("price", numTerm), EqClause("spaces", numTerm)>>
                     ELSE <<>>))

SearchRequest(q) == [route |-> "GET /search", q |-> q]

\* await lessonsCollection.find({}).toArray() for an empty term, else
\* await lessonsCollection.find(query).toArray()
Search(res, q, ok) ==
    LET term == SearchTerm(q)
        filter == IF term = <<>> THEN EmptyFilter ELSE SearchQuery(term)
    IN
    /\ Receives(res)
    /\ Await(res, SearchRequest(q), StoreOp("find", "lessons", ok),
             Settled(ok, Find(lessonsCollection, filter)), Snapshot)
    /\ UNCHANGED <<lessonsCollection, ordersCollection, serverExit, writes, seedVars>>

\* The find of an empty term is awaited outside the try block: when it fails
\* the handler's promise rejects.
SearchRejects(q, result) == SearchTerm(q) = <<>> /\ ~result.ok

\* res.json(all), res.json(results), or the catch block.
SearchReply(result) ==
    IF result.ok THEN Json(200, result.value)
    ELSE Json(500, [error |-> "Search failed"])

\* -------------------------------------------------------- PUT /lessons/:id

PutRequest(idParam, updateData) ==
    [route |-> "PUT /lessons/:id", id |-> idParam, body |-> updateData]

\* Whether the request changes a lesson: the id parses, the store call
\* succeeds and a lesson matches.
PutApplies(idParam, updateData, ok) ==
    /\ ~IsNaN(ParseInt(idParam))
    /\ ok
    /\ UpdateOne(lessonsCollection, ParseInt(idParam), updateData).matchedCount = 1

\* To the 400 answer, or to await lessonsCollection.updateOne(...).
PutLessonHandler(res, idParam, updateData, ok) ==
    LET lessonId == ParseInt(idParam)
        result == UpdateOne(lessonsCollection, lessonId, updateData)
        applied == PutApplies(idParam, updateData, ok)
        post == IF applied THEN result.coll ELSE lessonsCollection
    IN
    /\ Receives(res)
    /\ IF IsNaN(lessonId)
       THEN /\ AnswerNow(PutRequest(idParam, updateData),
                         Json(400, [error |-> "Lesson id must be a number"]))
            /\ UNCHANGED <<lessonsCollection, writes>>
       ELSE /\ Await(res, PutRequest(idParam, updateData),
                     StoreOp("updateOne", "lessons", ok),
                     Settled(ok, result.matchedCount),
                     [lessons |-> post, orders |-> ordersCollection])
            /\ lessonsCollection' = post
            /\ writes' = IF applied THEN writes + 1 ELSE writes
    /\ UNCHANGED <<ordersCollection, serverExit, seedVars>>

\* The handler, within the bound on writes.
PutLesson(res, idParam, updateData, ok) ==
    /\ req = NoRequest
    /\ PutApplies(idParam, updateData, ok) => writes < MaxWrites
    /\ PutLessonHandler(res, idParam, updateData, ok)

\* The 404 answer, res.json({ message }), or the catch block.
PutLessonReply(result) ==
    IF ~result.ok THEN Json(500, [error |-> "Failed to update lesson"])
    ELSE IF result.value = 0 THEN Json(404, [error |-> "Lesson not found"])
    ELSE Json(200, [message |-> "Lesson updated"])

\* ------------------------------------------------- POST /orders, POST /order

\* !name || !phone || !Array.isArray(items) || items.length === 0
MissingFields(body) ==
    \/ ~Truthy(body.name)
    \/ ~Truthy(body.phone)
    \/ ~IsArray(body.items)
    \/ Len(body.items.v) = 0

\* !phoneDigitsOnly || phone.length < 8
BadPhone(phone) == ~DigitsOnlyTest(phone) \/ LessThan(Length(phone), 8)

\* total || 0
TotalOrZero(total) == IF Truthy(total) THEN total ELSE JNum(0)

OrderDoc(body) ==
    [name |-> body.name, phone |-> body.phone, items |-> body.items,
     total |-> TotalOrZero(body.total), createdAt |-> "new Date()"]

OrderRequest(route, body) == [route |-> route, body |-> body]

\* await ordersCollection.insertOne(orderDoc), within the bound on writes.
InsertOrder(res, route, body, ok) ==
    LET result == InsertOne(ordersCollection, OrderDoc(body))
        post == IF ok THEN result.coll ELSE ordersCollection
    IN
    /\ ok => writes < MaxWrites
    /\ Await(res, OrderRequest(route, body), StoreOp("insertOne", "orders", ok),
             Settled(ok, result.insertedId),
             [lessons |-> lessonsCollection, orders |-> post])
    /\ ordersCollection' = post
    /\ writes' = IF ok THEN writes + 1 ELSE writes

\* To a 400 answer, or to the insert.
handleCreateOrder(res, route, body, ok) ==
    /\ Receives(res)
    /\ IF MissingFields(body)
       THEN /\ AnswerNow(OrderRequest(route, body),
                         Json(400, [error |-> "Missing name, phone, or items."]))
            /\ UNCHANGED <<ordersCollection, writes>>
       ELSE IF BadPhone(body.phone)
       THEN /\ AnswerNow(OrderRequest(route, body),
                         Json(400, [error |->
                           "Phone number must be at least 8 digits and contain only numbers."]))
            /\ UNCHANGED <<ordersCollection, writes>>
       ELSE InsertOrder(res, route, body, ok)
    /\ UNCHANGED <<lessonsCollection, serverExit, seedVars>>

\* The handler as the earlier revision of server.js has it: no test of the
\* phone beyond its presence.
handleCreateOrder_part_001(res, route, body, ok) ==
    /\ Receives(res)
    /\ IF MissingFields(body)
       THEN /\ AnswerNow(OrderRequest(route, body),
                         Json(400, [error |-> "Missing name, phone, or items in order."]))
            /\ UNCHANGED <<ordersCollection, writes>>
       ELSE InsertOrder(res, route, body, ok)
    /\ UNCHANGED <<lessonsCollection, serverExit, seedVars>>

\* res.status(201).json({ message, orderId }), or the catch block.
CreateOrderReply(result) ==
    IF result.ok THEN Json(201, [message |-> "Order saved", orderId |-> result.value])
    ELSE Json(500, [error |-> "Failed to save order"])

\* ------------------------------------------------------------- GET /orders

OrdersRequest == [route |-> "GET /orders"]

\* await ordersCollection.find({}).toArray()
GetOrders(res, ok) ==
    /\ Receives(res)
    /\ Await(res, OrdersRequest, StoreOp("find", "orders", ok),
             Settled(ok, Find(ordersCollection, EmptyFilter)), Snapshot)
    /\ UNCHANGED <<lessonsCollection, ordersCollection, serverExit, writes, seedVars>>

\* res.json(orders), or the catch block.
GetOrdersReply(result) ==
    IF result.ok THEN Json(200, result.value)
    ELSE Json(500, [error |-> "Failed to fetch orders"])

\* ------------------------------------------------- after the await

\* The handler's promise rejects when its store call settles.
Rejects(p) == p.req.route = "GET /search" /\ SearchRejects(p.req.q, p.result)

\* What the handler sends when its store call has settled.
Reply(p) ==
    CASE p.req.route = "GET /lessons" -> GetLessonsReply(p.result)
      [] p.req.route = "GET /search" -> SearchReply(p.result)
      [] p.req.route = "PUT /lessons/:id" -> PutLessonReply(p.result)
      [] p.req.route \in {"POST /orders", "POST /order"} -> CreateOrderReply(p.result)
      [] p.req.route = "GET /orders" -> GetOrdersReply(p.result)

\* The store call of the handler waiting on the connection has settled and the
\* handler goes on: it answers from what the call gave it, whatever the store
\* holds by now.
Resume(res) ==
    LET p == inFlight[res] IN
    /\ serverExit = -1
    /\ req = NoRequest
    /\ p.req.route # "none"
    /\ ~Rejects(p)
    /\ req' = p.req
    /\ responses' = <<Reply(p)>>
    /\ storeOps' = p.storeOps
    /\ before' = p.before
    /\ after' = p.after
    /\ inFlight' = Waiting([inFlight EXCEPT ![res] = Idle])
    /\ UNCHANGED <<lessonsCollection, ordersCollection, serverExit, writes, seedVars>>

\* The store call has failed and nothing catches the rejection: the request
\* gets what the error handling of the application sends.  When the process
\* ends on it, the handlers still waiting never answer.
Rejection(res, outcome, sent) ==
    LET p == inFlight[res] IN
    /\ serverExit = -1
    /\ req = NoRequest
    /\ p.req.route # "none"
    /\ Rejects(p)
    /\ req' = p.req
    /\ responses' = sent
    /\ storeOps' = p.storeOps
    /\ before' = p.before
    /\ after' = p.after
    /\ inFlight' = Waiting([inFlight EXCEPT ![res] = Idle])
    /\ serverExit' = IF outcome = "exit" THEN 1 ELSE serverExit
    /\ UNCHANGED <<lessonsCollection, ordersCollection, writes, seedVars>>

\* server.js has the generic error handler.
Reject(res, outcome) == Rejection(res, outcome, Unhandled(outcome))

\* The earlier revision has none: Express 5 passes the rejection to its own
\* final handler, which sends status 500 with an HTML page.
Unhandled_part_001(outcome) ==
    IF outcome = "forwarded" THEN <<[status |-> 500, body |-> "text/html"]>> ELSE <<>>
Reject_part_001(res, outcome) == Rejection(res, outcome, Unhandled_part_001(outcome))

\* ------------------------------------------------------ scripts/seed.js

\* The connection the next request arrives on: the first with no handler
\* waiting, while the server runs.
Accepting ==
    IF serverExit = -1 /\ req = NoRequest
    THEN {c \in Connections :
            /\ inFlight[c].req.route = "none"
            /\ \A d \in Connections : inFlight[d].req.route = "none" => c <= d}
    ELSE {}

\* The script is a process of its own: its steps come at any point between
\* the steps of the server, whatever requests are waiting.
SeedStep ==
    /\ req = NoRequest
    /\ UNCHANGED <<exchangeVars, inFlight, serverExit, ordersCollection, writes>>

\* What a run finds in the collection: nothing, the catalog, or other records.
Prior(coll) ==
    IF coll = <<>> THEN "empty" ELSE IF coll = lessons THEN "catalog" ELSE "changed"

\* The documents an insertMany that fails had written before it failed: none,
\* or all of them (the failure is that of the acknowledgement).
InsertedBeforeFailure == {0, 10}

\* node scripts/seed.js: without MONGODB_URI the script exits with status 1.
SeedStart(uriSet) ==
    /\ seedPc \in {"idle", "exited"}
    /\ seedPrior' = IF uriSet THEN Prior(lessonsCollection) ELSE "none"
    /\ seedError' = IF uriSet THEN "none" ELSE "uri"
    /\ seedPc' = IF uriSet THEN "connect" ELSE "exited"
    /\ seedExit' = IF uriSet THEN -1 ELSE 1
    /\ SeedStep
    /\ UNCHANGED lessonsCollection

\* await client.connect()
SeedConnect(ok) ==
    /\ seedPc = "connect"
    /\ seedPc' = IF ok THEN "delete" ELSE "close"
    /\ seedError' = IF ok THEN "none" ELSE "caught"
    /\ SeedStep
    /\ UNCHANGED <<lessonsCollection, seedExit, seedPrior>>

\* await lessonsCol.deleteMany({})
SeedDelete(ok) ==
    /\ seedPc = "delete"
    /\ seedPc' = IF ok THEN "insert" ELSE "close"
    /\ seedError' = IF ok THEN "none" ELSE "caught"
    /\ lessonsCollection' = IF ok THEN DeleteMany(lessonsCollection) ELSE lessonsCollection
    /\ SeedStep
    /\ UNCHANGED <<seedExit, seedPrior>>

\* await lessonsCol.insertMany(lessons): a failing insert keeps the k
\* documents it had written.
SeedInsert(ok, k) ==
    /\ seedPc = "insert"
    /\ seedPc' = "close"
    /\ seedError' = IF ok THEN "none" ELSE "caught"
    /\ lessonsCollection' = IF ok THEN InsertMany(lessonsCollection, lessons)
                            ELSE InsertManyFailing(lessonsCollection, lessons, k)
    /\ SeedStep
    /\ UNCHANGED <<seedExit, seedPrior>>

\* The status the process ends with once seed() has returned: the catch block
\* logs the error and neither rethrows nor sets process.exitCode.
ExitStatus(error) == 0

\* finally { client.close() }, then the process ends.
SeedClose ==
    /\ seedPc = "close"
    /\ seedPc' = "exited"
    /\ seedExit' = ExitStatus(seedError)
    /\ seedPrior' = "none"
    /\ SeedStep
    /\ UNCHANGED <<lessonsCollection, seedError>>

\* ------------------------------------------------------------------ inputs

\* req.query.q: absent, empty, white space, text in upper case, the
\* regular-expression metacharacter ".", a price, the spaces of a seeded
\* lesson, a numeric-prefixed term.
QueryValues ==
    {Undefined, JStr(<<>>), JStr(<<" ">>), JStr(<<"H">>), JStr(<<".">>),
     JStr(<<"1", "0", "0">>), JStr(<<"5">>), JStr(<<"5", "h">>)}

\* The :id path segments: "1", "99", "abc", "3abc", "1.5".
IdParams ==
    <<  <<"1">>, <<"9", "9">>, <<"a", "b", "c">>, <<"3", "a", "b", "c">>,
        <<"1", ".", "5">>  >>

\* The JSON bodies of PUT /lessons/:id.
Patches == <<  [spaces |-> 3], [id |-> 3]  >>

\* The PUT requests, each with whether its store call succeeds: lesson 1 with
\* each body, every other id with the first (an id the handler rejects or that
\* matches no lesson never reaches the body); the update of lesson 1 that fails.
PutInputs ==
    {<<IdParams[1], Patches[j], TRUE>> : j \in 1..Len(Patches)}
    \cup {<<IdParams[i], Patches[1], TRUE>> : i \in 1..Len(IdParams)}
    \cup {<<IdParams[1], Patches[1], FALSE>>}

\* The searches, each with whether its store call succeeds: every query; the
\* find that fails for each blank query and for a text query.
SearchInputs ==
    {<<q, TRUE>> : q \in QueryValues}
    \cup {<<q, FALSE>> : q \in {Undefined, JStr(<<>>), JStr(<<" ">>), JStr(<<"H">>)}}

\* An order that passes every test of the handler, and the values each of its
\* fields takes in turn.
Order ==
    [name |-> JStr(<<"A", "l">>),
     phone |-> JStr(<<"1", "2", "3", "4", "5", "6", "7", "8">>),
     items |-> JArr(<<[id |-> 1, quantity |-> 2]>>),
     total |-> Undefined]

Names == {Undefined, JStr(<<>>)}

Phones ==
    {Undefined,
     JStr(<<"1", "2", "3", "4", "5", "6", "7">>),
     JStr(<<"1", "2", "3", "4", "5", "6", "7", "a">>),
     JNum(1234),
     JArr(<<JStr(<<"1", "2", "3", "4", "5", "6", "7", "8">>)>>)}

ItemLists == {Undefined, JArr(<<>>)}

Totals == {JNum(0), JNum(250)}

OrderBodies ==
    {Order}
    \cup {[Order EXCEPT !.name = v] : v \in Names}
    \cup {[Order EXCEPT !.phone = v] : v \in Phones}
    \cup {[Order EXCEPT !.items = v] : v \in ItemLists}
    \cup {[Order EXCEPT !.total = v] : v \in Totals}

\* The order requests, each with whether its store call succeeds: every body
\* on POST /orders, the passing order on its alias POST /order; the insert of
\* the passing order that fails.
OrderInputs ==
    {<<"POST /orders", body, TRUE>> : body \in OrderBodies}
    \cup {<<"POST /order", Order, TRUE>>, <<"POST /orders", Order, FALSE>>}

\* ------------------------------------------------------------ specifications

\* The server: every route that reaches the store.  A request is taken
\* whenever a connection has no handler waiting, whatever the other waits for.
Next ==
    \/ \E res \in Accepting, ok \in BOOLEAN :
          GetLessons(res, ok) /\ UNCHANGED clientVars
    \/ \E res \in Accepting, input \in SearchInputs :
          Search(res, input[1], input[2]) /\ UNCHANGED clientVars
    \/ \E res \in Accepting, input \in PutInputs :
          PutLesson(res, input[1], input[2], input[3]) /\ UNCHANGED clientVars
    \/ \E res \in Accepting, input \in OrderInputs :
          handleCreateOrder(res, input[1], input[2], input[3]) /\ UNCHANGED clientVars
    \/ \E res \in Accepting, ok \in BOOLEAN :
          GetOrders(res, ok) /\ UNCHANGED clientVars
    \/ \E res \in Connections : Resume(res) /\ UNCHANGED clientVars
    \/ \E res \in Connections, outcome \in Outcomes :
          Reject(res, outcome) /\ UNCHANGED clientVars
    \/ Complete /\ UNCHANGED clientVars

Spec == Init /\ [][Next]_vars

\* The seeding script run against the store of a running server: every step
\* of Next and every step of the script, in any order.
NextSeed ==
    \/ \E uriSet \in BOOLEAN : SeedStart(uriSet) /\ UNCHANGED clientVars
    \/ \E ok \in BOOLEAN : SeedConnect(ok) /\ UNCHANGED clientVars
    \/ \E ok \in BOOLEAN : SeedDelete(ok) /\ UNCHANGED clientVars
    \/ \E ok \in BOOLEAN, k \in InsertedBeforeFailure :
          SeedInsert(ok, k) /\ UNCHANGED clientVars
    \/ SeedClose /\ UNCHANGED clientVars
    \/ \E res \in Accepting, ok \in BOOLEAN :
          GetLessons(res, ok) /\ UNCHANGED clientVars
    \/ \E res \in Accepting, input \in SearchInputs :
          Search(res, input[1], input[2]) /\ UNCHANGED clientVars
    \/ \E res \in Accepting, input \in PutInputs :
          PutLesson(res, input[1], input[2], input[3]) /\ UNCHANGED clientVars
    \/ \E res \in Accepting, input \in OrderInputs :
          handleCreateOrder(res, input[1], input[2], input[3]) /\ UNCHANGED clientVars
    \/ \E res \in Accepting, ok \in BOOLEAN :
          GetOrders(res, ok) /\ UNCHANGED clientVars
    \/ \E res \in Connections : Resume(res) /\ UNCHANGED clientVars
    \/ \E res \in Connections, outcome \in Outcomes :
          Reject(res, outcome) /\ UNCHANGED clientVars
    \/ Complete /\ UNCHANGED clientVars

SpecSeed == Init /\ [][NextSeed]_vars

\* The earlier revision of server.js: the same GET /lessons, GET /search and
\* PUT /lessons/:id, its own order handler, no GET /orders and no error
\* handler.
NextPart001 ==
    \/ \E res \in Accepting, ok \in BOOLEAN :
          GetLessons(res, ok) /\ UNCHANGED clientVars
    \/ \E res \in Accepting, input \in SearchInputs :
          Search(res, input[1], input[2]) /\ UNCHANGED clientVars
    \/ \E res \in Accepting, input \in PutInputs :
          PutLesson(res, input[1], input[2], input[3]) /\ UNCHANGED clientVars
    \/ \E res \in Accepting, input \in OrderInputs :
          handleCreateOrder_part_001(res, input[1], input[2], input[3]) /\ UNCHANGED clientVars
    \/ \E res \in Connections : Resume(res) /\ UNCHANGED clientVars
    \/ \E res \in Connections, outcome \in Outcomes :
          Reject_part_001(res, outcome) /\ UNCHANGED clientVars
    \/ Complete /\ UNCHANGED clientVars

SpecPart001 == Init /\ [][NextPart001]_vars

\* ------------------------------------------- two clients booking one lesson

\* The lesson both clients book, the quantities they may book, and the spaces
\* a listing shows for a lesson.
BookedLesson == 1
Quantities == {1, 2}
SpacesOf(listing, id) ==
    listing[CHOOSE i \in 1..Len(listing) : listing[i].id = id].spaces

\* The server runs on the seeded catalog; each client, on a connection of its
\* own, is about to check out its own quantity of the lesson.
InitClients ==
    /\ lessonsCollection = lessons
    /\ ordersCollection = <<>>
    /\ inFlight = [c \in Connections |-> Idle]
    /\ serverExit = -1
    /\ req = NoRequest
    /\ responses = <<>>
    /\ storeOps = <<>>
    /\ before = NoSnapshot
    /\ after = NoSnapshot
    /\ writes = 0
    /\ seedPc = "idle"
    /\ seedError = "none"
    /\ seedExit = -1
    /\ seedPrior = "none"
    /\ clients \in [Clients -> {[pc |-> "start", quantity |-> q, seen |-> 0,
                                  sent |-> 0, status |-> 0] : q \in Quantities}]
    /\ lastApplied = 0

\* The client sends GET /lessons.
ClientGet(c, ok) ==
    /\ clients[c].pc = "start"
    /\ GetLessons(c, ok)
    /\ clients' = [clients EXCEPT ![c].pc = "getting"]
    /\ UNCHANGED lastApplied

\* The client gets the answer and keeps the spaces shown for the lesson; it
\* asks again when the request failed.
ClientGot(c) ==
    /\ clients[c].pc = "getting"
    /\ Resume(c)
    /\ clients' = IF responses'[1].status = 200
                  THEN [clients EXCEPT ![c].pc = "read",
                                       ![c].seen = SpacesOf(responses'[1].body, BookedLesson)]
                  ELSE [clients EXCEPT ![c].pc = "start"]
    /\ UNCHANGED lastApplied

\* The client sends PUT /lessons/:id with { spaces: (value read) - (own
\* quantity) }.
ClientPut(c, ok) ==
    LET idParam == NatToString(BookedLesson)
        updateData == [spaces |-> clients[c].seen - clients[c].quantity]
    IN
    /\ clients[c].pc = "read"
    /\ PutLessonHandler(c, idParam, updateData, ok)
    /\ clients' = [clients EXCEPT ![c].pc = "putting", ![c].sent = updateData.spaces]
    /\ lastApplied' = IF PutApplies(idParam, updateData, ok) THEN c ELSE lastApplied

\* The client gets the answer to its PUT and keeps the status.
ClientDone(c) ==
    /\ clients[c].pc = "putting"
    /\ Resume(c)
    /\ clients' = [clients EXCEPT ![c].pc = "done", ![c].status = responses'[1].status]
    /\ UNCHANGED lastApplied

\* The two clients' requests are in flight together, in any order.
NextClients ==
    \/ \E c \in Clients, ok \in BOOLEAN : ClientGet(c, ok)
    \/ \E c \in Clients : ClientGot(c)
    \/ \E c \in Clients, ok \in BOOLEAN : ClientPut(c, ok)
    \/ \E c \in Clients : ClientDone(c)
    \/ Complete /\ UNCHANGED clientVars

SpecClients == InitClients /\ [][NextClients]_vars


\* ------------------------------------------------------------------ claims

\* What the exchange that ended latest shows.
IsPost == req.route \in {"POST /orders", "POST /order"}
IsPut == req.route = "PUT /lessons/:id"
IsSearch == req.route = "GET /search"
Answered(code) == Len(responses) = 1 /\ responses[1].status = code
StoreSucceeded == Len(storeOps) = 1 /\ storeOps[1].ok
LessonsUntouched == after.lessons = before.lessons
OrdersUntouched == after.orders = before.orders

\* The requests whose handlers made their store call and will never answer:
\* the process has ended.
Abandoned ==
    {inFlight[c].req : c \in {d \in Connections :
                                serverExit # -1 /\ inFlight[d].req.route # "none"}}

\* A phone as the data model has it: text of digits only, at least 8 of them.
PhoneText(p) == p.t = "string" /\ p.v # <<>> /\ AllDigits(p.v) /\ Len(p.v) >= 8

\* A valid order payload: non-empty name, digits-only phone of length >= 8,
\* non-empty items array.
ValidOrder(body) ==
    /\ body.name.t = "string" /\ body.name.v # <<>>
    /\ PhoneText(body.phone)
    /\ body.items.t = "array" /\ body.items.v # <<>>

\* The total the new record is to carry: the supplied one, or 0.
ExpectedTotal(total) ==
    IF \/ total.t \in {"undefined", "null"}
       \/ total \in {JNum(0), JStr(<<>>), [t |-> "boolean", v |-> FALSE]}
    THEN JNum(0)
    ELSE total

\* The orders collection gained exactly one record, the last, carrying the
\* payload; the records it held are as they were.
OneNewOrder(body) ==
    /\ Len(after.orders) = Len(before.orders) + 1
    /\ SubSeq(after.orders, 1, Len(before.orders)) = before.orders
    /\ LET new == after.orders[Len(after.orders)]
       IN  /\ {"name", "phone", "items", "total"} \subseteq DOMAIN new
           /\ new.name = body.name
           /\ new.phone = body.phone
           /\ new.items = body.items
           /\ new.total = ExpectedTotal(body.total)

\* C1: every valid POST /orders (or /order) payload is answered 201 and adds
\* exactly one order record carrying the payload, total 0 when omitted or
\* falsy; nothing else changes.  No valid order is left without an answer.
C1_EveryValidOrderIsSaved ==
    /\ (IsPost /\ ValidOrder(req.body)) =>
           /\ Answered(201)
           /\ OneNewOrder(req.body)
           /\ LessonsUntouched
    /\ \A r \in Abandoned :
           ~(r.route \in {"POST /orders", "POST /order"} /\ ValidOrder(r.body))

\* A phone that breaks no rule whatever its JSON type: its text is digits
\* only and at least 8 long.
PhoneKeepsRules(p) ==
    /\ p.t \in {"string", "number"}
    /\ LET text == StringOf(p) IN text # <<>> /\ AllDigits(text) /\ Len(text) >= 8

\* A payload that violates at least one validation rule.
ViolatesARule(body) ==
    \/ body.name.t \in {"undefined", "null"} \/ body.name = JStr(<<>>)
    \/ body.phone.t \in {"undefined", "null"} \/ body.phone = JStr(<<>>)
    \/ body.items.t # "array" \/ body.items.v = <<>>
    \/ ~PhoneKeepsRules(body.phone)

\* C2: a payload violating a validation rule, whatever the JSON types of its
\* name and phone, is answered 400 with no store call and no new record; so
\* every persisted order has non-empty items and a digits-only phone of
\* length >= 8.
C2_InvalidOrderIsRejected ==
    /\ (IsPost /\ ViolatesARule(req.body)) =>
           (Answered(400) /\ storeOps = <<>> /\ OrdersUntouched)
    /\ \A i \in 1..Len(ordersCollection) :
           /\ ordersCollection[i].items.t = "array"
           /\ ordersCollection[i].items.v # <<>>
           /\ PhoneKeepsRules(ordersCollection[i].phone)

\* The path segment is an integer numeral: an optional sign, then digits only.
IntegerText(s) == Unsigned(s) # <<>> /\ AllDigits(Unsigned(s))
IntegerValue(s) == Sign(s) * DigitsValue(Unsigned(s))

\* The lessons that carried the id before the request.
HadId(n) == {i \in 1..Len(before.lessons) : before.lessons[i].id = n}

\* Record i carries every field of the patch with the supplied value and its
\* other fields as before; every other record is as before.
PatchedAt(i, patch) ==
    /\ Len(after.lessons) = Len(before.lessons)
    /\ DOMAIN after.lessons[i] = DOMAIN before.lessons[i] \cup DOMAIN patch
    /\ \A f \in DOMAIN patch : after.lessons[i][f] = patch[f]
    /\ \A f \in DOMAIN before.lessons[i] \ DOMAIN patch :
           after.lessons[i][f] = before.lessons[i][f]
    /\ \A j \in 1..Len(before.lessons) :
           j # i => after.lessons[j] = before.lessons[j]

\* What GET /lessons shows next, with no write in between.
Shown == Find(after.lessons, EmptyFilter)

\* C3: PUT /lessons/:id with an integer id is answered 200 when a lesson has
\* that id, and GET /lessons then shows the patched fields with everything
\* else unchanged; it is answered 404, with no change, when none has.  No such
\* request is left without an answer.
C3_PutUpdatesOrNotFound ==
    /\ (IsPut /\ IntegerText(req.id)) =>
           LET m == HadId(IntegerValue(req.id)) IN
           IF m # {}
           THEN /\ Answered(200)
                /\ Shown = after.lessons
                /\ PatchedAt(CHOOSE i \in m : \A k \in m : i <= k, req.body)
           ELSE Answered(404) /\ LessonsUntouched
    /\ \A r \in Abandoned : ~(r.route = "PUT /lessons/:id" /\ IntegerText(r.id))

\* C4: a path id that is not an integer numeral (alphabetic, numeric-prefixed
\* such as "3abc", decimal such as "1.5") is answered 400 with no store call
\* and no lesson changed.
C4_NonIntegerIdIsRejected ==
    (IsPut /\ ~IntegerText(req.id)) =>
        (Answered(400) /\ storeOps = <<>> /\ LessonsUntouched)


\* q is missing, empty or white space only.
BlankQuery(q) == q = Undefined \/ (q.t = "string" /\ \A i \in 1..Len(q.v) : q.v[i] = " ")

\* q without the white space at its ends.
RECURSIVE Stripped(_)
Stripped(s) ==
    IF s = <<>> THEN s
    ELSE IF s[1] = " " THEN Stripped(SubSeq(s, 2, Len(s)))
    ELSE IF s[Len(s)] = " " THEN Stripped(SubSeq(s, 1, Len(s) - 1))
    ELSE s

\* C5: with q missing, empty or white space only, the lessons GET /search
\* returns are those GET /lessons returns in the same store state, the state
\* its find met: all of them.
C5_BlankSearchListsAllLessons ==
    /\ (req.route = "GET /lessons" /\ Answered(200)) =>
           responses[1].body = before.lessons
    /\ (IsSearch /\ BlankQuery(req.q) /\ Answered(200)) =>
           responses[1].body = before.lessons

\* A search with a white-space-only q returned all ten seeded lessons.
C5_Witness ==
    /\ IsSearch /\ Answered(200)
    /\ req.q.t = "string" /\ req.q.v # <<>> /\ BlankQuery(req.q)
    /\ Len(responses[1].body) = 10

\* The text contains the term as a literal substring, case ignored.
ContainsIgnoringCase(text, term) ==
    \E start \in 0..(Len(text) - Len(term)) :
        \A k \in 1..Len(term) : LowerChar(text[start + k]) = LowerChar(term[k])

\* The term is a decimal numeral as a whole: an optional sign, digits and at
\* most one point, at least one digit.
WholeNumeral(term) ==
    LET u == Unsigned(term) IN
    /\ \A i \in 1..Len(u) : IsDigit(u[i]) \/ u[i] = "."
    /\ Cardinality({i \in 1..Len(u) : u[i] = "."}) <= 1
    /\ \E i \in 1..Len(u) : IsDigit(u[i])

\* C6: a non-empty trimmed term that is pure text (no number) returns exactly
\* the lessons whose subject or location contains it as a case-insensitive
\* literal substring.
C6_TextSearchIsLiteralSubstring ==
    (IsSearch /\ ~BlankQuery(req.q) /\ ~WholeNumeral(Stripped(req.q.v)) /\ Answered(200)) =>
        responses[1].body =
            SelectSeq(before.lessons,
                      LAMBDA l : \/ ContainsIgnoringCase(l.subject, Stripped(req.q.v))
                                 \/ ContainsIgnoringCase(l.location, Stripped(req.q.v)))

\* The lessons the two text clauses of the search match.
TextMatch(l, term) ==
    \/ RegexTest(ToLowerCase(term), l.subject)
    \/ RegexTest(ToLowerCase(term), l.location)

\* C7: the numeric branch (price == N or spaces == N) is in the predicate
\* exactly when the whole trimmed term is a number N, never for a
\* numeric-prefixed term; the result is then the union of the text matches and
\* the lessons whose price or spaces equals N, and otherwise the text matches.
C7_NumericBranchOnlyForWholeNumbers ==
    (IsSearch /\ ~BlankQuery(req.q)) =>
        LET term == Stripped(req.q.v)
            clauses == SearchQuery(term).clauses
            numericBranch == \E i \in 1..Len(clauses) : clauses[i].field \in {"price", "spaces"}
        IN  /\ numericBranch <=> WholeNumeral(term)
            /\ Answered(200) =>
                 responses[1].body =
                   SelectSeq(before.lessons,
                     LAMBDA l : \/ TextMatch(l, term)
                                \/ /\ WholeNumeral(term)
                                   /\ \/ NumEquals(Number(term), l.price)
                                      \/ NumEquals(Number(term), l.spaces))

\* The search for "100" returned only a lesson priced 100, matched by no text.
C7_Witness ==
    /\ IsSearch /\ Answered(200)
    /\ req.q = JStr(<<"1", "0", "0">>)
    /\ Len(responses[1].body) = 1
    /\ responses[1].body[1].price = 100
    /\ ~TextMatch(responses[1].body[1], <<"1", "0", "0">>)

\* C8: whatever the collection held, the script's insert, once it succeeds,
\* leaves exactly the ten catalog records (ids 1..10, all spaces 5), the wipe
\* having come first; between the wipe and the insert the collection is empty.
C8_ReseedYieldsCatalog ==
    /\ [](seedPc = "insert" => lessonsCollection = <<>>)
    /\ [][(seedPc = "insert" /\ seedPc' = "close" /\ seedError' = "none") =>
            /\ lessonsCollection' = lessons
            /\ Len(lessonsCollection') = 10
            /\ \A i \in 1..10 : /\ lessonsCollection'[i].id = i
                                /\ lessonsCollection'[i].spaces = 5]_vars

\* A run that found the collection changed or partly filled has completed its
\* insert.
C8_Witness ==
    /\ seedPc = "close" /\ seedError = "none"
    /\ seedPrior = "changed"
    /\ lessonsCollection = lessons

\* C9: the script exits non-zero on any failure and zero only when both the
\* wipe and the insert succeeded.
C9_SeederExitStatus ==
    seedPc = "exited" => (seedExit = 0 <=> seedError = "none")

\* C10: a failing store call gets the request exactly one response, 500 with
\* a JSON {error} body, on every route; no request makes more than one store
\* call, and none is retried.
C10_StoreFailureAnswered500 ==
    /\ Len(storeOps) <= 1
    /\ (req # NoRequest /\ Len(storeOps) = 1 /\ ~storeOps[1].ok) =>
           /\ Answered(500)
           /\ DOMAIN responses[1].body = {"error"}


\* C11: after any sequence of completed runs of the seeding script and of
\* PUT /lessons/:id requests, whatever their patch bodies, no two lesson
\* records have the same id.
C11_LessonIdsUnique ==
    \A i, j \in 1..Len(lessonsCollection) :
        i # j => lessonsCollection[i].id # lessonsCollection[j].id

\* The spaces of the booked lesson now, and as the catalog has them.
SpacesNow == SpacesOf(lessonsCollection, BookedLesson)
InitialSpaces == SpacesOf(lessons, BookedLesson)

\* C12: two clients each read a lesson's spaces via GET /lessons and then
\* each PUT spaces = (value read) - (own quantity). The server neither
\* serializes nor reconciles them: every PUT carries exactly that value and is
\* answered 200 unless the store call fails, and in every interleaving the
\* lesson's spaces equals the value supplied by whichever PUT the store
\* applied last (the catalog's value while it has applied none).
C12_LastAppliedPutWins ==
    /\ \A c \in Clients :
           /\ clients[c].pc \in {"putting", "done"} =>
                  clients[c].sent = clients[c].seen - clients[c].quantity
           /\ clients[c].pc = "done" => clients[c].status \in {200, 500}
    /\ lastApplied = 0 => SpacesNow = InitialSpaces
    /\ lastApplied # 0 =>
           /\ clients[lastApplied].pc \in {"putting", "done"}
           /\ clients[lastApplied].pc = "done" => clients[lastApplied].status = 200
           /\ SpacesNow = clients[lastApplied].sent

\* The lost update: both clients read the initial value, both PUTs were
\* answered 200, and the final spaces is the initial value minus only the
\* quantity of the client whose PUT was applied last.
C12_Witness ==
    /\ \A c \in Clients :
           /\ clients[c].pc = "done"
           /\ clients[c].status = 200
           /\ clients[c].seen = InitialSpaces
    /\ lastApplied # 0
    /\ SpacesNow = InitialSpaces - clients[lastApplied].quantity
    /\ SpacesNow # InitialSpaces - clients[1].quantity - clients[2].quantity

====
